---------------------------- MODULE Spec2Model ----------------------------
(***************************************************************************)
(* The blocklist store of hickory-dns (crates/server/src/store/blocklist): *)
(* BlockListAuthority of authority.rs (a HashMap of list entries with      *)
(* wildcard expansion at lookup time), the BlockTree of authority.tree.rs, *)
(* and the chained-store dispatch the authority's documentation describes. *)
(*                                                                         *)
(* A Rust String is a sequence of one-character strings; a LowerName is a  *)
(* sequence of lowercase labels, most specific label first.                *)
(***************************************************************************)
EXTENDS Integers, Sequences, FiniteSets, TLC

\* ------------------------------------------------------------------ bounds
\* Labels in one line of a block list file.
MaxLabels == 2
\* Largest configured min_wildcard_depth (a u8 in the code).
MaxDepth == 2
\* Block list files named by one configuration, and lines in one file.
MaxLists == 2
MaxLines == 1

\* Labels a query name may have.
MaxQueryLabels == MaxLabels + 1

\* Characters of list-file labels and of query labels ("*" is an ordinary
\* label character on the wire; a LowerName holds no upper-case letter).
EntryLabels == {"a", "A", "*"}
QueryLabels == {"a", "*"}
RecordTypes == {"A", "AAAA"}

\* ----------------------------------------------------------------- strings
RECURSIVE LabelSeqs(_, _)
LabelSeqs(S, n) ==
    IF n = 0 THEN {<<>>}
    ELSE LET P == LabelSeqs(S, n - 1)
         IN  P \cup {<<l>> \o p : l \in S, p \in {q \in P : Len(q) = n - 1}}

\* The labels of ls, each followed by the separator ".".
RECURSIVE Dotted(_)
Dotted(ls) ==
    IF ls = <<>> THEN <<>> ELSE <<Head(ls), ".">> \o Dotted(Tail(ls))

\* LowerName's Display: every label followed by ".", the root name is ".".
to_string(name) == IF name = <<>> THEN <<".">> ELSE Dotted(name)

\* str::split(sep): the pieces between separators, n separators give n + 1
\* pieces (a trailing separator gives a trailing empty piece).
RECURSIVE split(_, _)
split(s, sep) ==
    IF \A i \in 1..Len(s) : s[i] # sep THEN <<s>>
    ELSE LET k == CHOOSE i \in 1..Len(s) :
                      s[i] = sep /\ \A j \in 1..(i - 1) : s[j] # sep
         IN  <<SubSeq(s, 1, k - 1)>> \o split(SubSeq(s, k + 1, Len(s)), sep)

\* ------------------------------------------------------------------ inputs
\* The lines a block list file may hold: labels joined by ".", with or
\* without the root dot; "" is a blank line, "*.x" a wildcard line.
Lines ==
    {IF dot THEN Dotted(ls)
            ELSE SubSeq(Dotted(ls), 1, 2 * Len(ls) - 1) :
        ls \in LabelSeqs(EntryLabels, MaxLabels), dot \in BOOLEAN}

\* A list file: one that cannot be opened, or its lines (contents.split('\n')).
Unreadable == [readable |-> FALSE, lines |-> <<>>]
RECURSIVE SeqsUpTo(_, _)
SeqsUpTo(S, n) ==
    IF n = 0 THEN {<<>>}
    ELSE LET P == SeqsUpTo(S, n - 1)
         IN  P \cup {Append(p, x) : p \in {q \in P : Len(q) = n - 1}, x \in S}

Files == {Unreadable} \cup
         {[readable |-> TRUE, lines |-> ls] : ls \in SeqsUpTo(Lines, MaxLines)}

\* BlockListConfig: lists, wildcard_match, min_wildcard_depth.
Configs ==
    [lists : SeqsUpTo(Files, MaxLists), wildcard_match : BOOLEAN,
     min_wildcard_depth : 0..MaxDepth]

\* The names a lookup is given: LowerName values.
Queries == LabelSeqs(QueryLabels, MaxQueryLabels)

\* The stores a zone's chain may name, and the longest chain.
StoreKinds == {"Blocklist", "Forward"}
MaxChain == 2
Chains == SeqsUpTo(StoreKinds, MaxChain) \ {<<>>}

VARIABLES
    pc,                 \* "start", "serving" (idle), "dispatching",
                        \* "replying", "panicked", "aborted"
    config,             \* the BlockListConfig try_from_config was given
    block_table,        \* BlockListAuthority.block_table: key -> bool
    wildcard_match,     \* BlockListAuthority.wildcard_match
    min_wildcard_depth, \* BlockListAuthority.min_wildcard_depth
    block_tree,         \* BlockListAuthority.block_tree (authority.tree.rs)
    chain,              \* the zone's stores, in configured order
    invoked,            \* the stores the dispatch in flight has invoked
    query,              \* the name and record type of the call in flight
    result              \* what that call ended with

authority == <<block_table, wildcard_match, min_wildcard_depth>>
vars == <<pc, config, block_table, wildcard_match, min_wildcard_depth,
          block_tree, chain, invoked, query, result>>

NoConfig == [lists |-> <<>>, wildcard_match |-> FALSE, min_wildcard_depth |-> 0]
NoQuery == [name |-> <<>>, rtype |-> "none"]
NoResult == [status |-> "none", records |-> <<>>]
EmptyTable == [k \in {} |-> FALSE]

\* BlockTree::new and the node insert creates for a label.
BlockTreeNode(label) ==
    [entry |-> label, wildcard |-> FALSE, children |-> <<>>, ptr |-> "None"]
BlockTreeNew == BlockTreeNode(<<".">>)

\* --------------------------------------------------------------- authority
\* The key BlockListAuthority::add inserts for a non-blank line: a line not
\* ending in '.' gets one appended; nothing else is changed.
entry_key(entry) ==
    IF entry[Len(entry)] # "." THEN entry \o <<".">> ELSE entry

\* BlockListAuthority::add on an opened file; blank lines are skipped.
add(table, file) ==
    LET keys == {entry_key(file.lines[i]) :
                    i \in {j \in 1..Len(file.lines) : file.lines[j] # <<>>}}
    IN  [k \in (DOMAIN table) \cup keys |-> FALSE]

\* The loop of try_from_config over config.lists: the table after the first
\* n files, and whether File::open(..).expect(..) panicked on one of them.
RECURSIVE load(_, _)
load(lists, n) ==
    IF n = 0 THEN [panicked |-> FALSE, table |-> EmptyTable]
    ELSE LET before == load(lists, n - 1)
         IN  IF before.panicked THEN before
             ELSE IF ~lists[n].readable
                  THEN [panicked |-> TRUE, table |-> before.table]
                  ELSE [panicked |-> FALSE, table |-> add(before.table, lists[n])]

\* BlockListAuthority::try_from_config: Ok(authority), or the panic of add.
try_from_config(c) ==
    LET loaded == load(c.lists, Len(c.lists))
    IN  /\ config' = c
        /\ IF loaded.panicked
           THEN /\ pc' = "panicked"
                /\ UNCHANGED authority
           ELSE /\ pc' = "serving"
                /\ block_table' = loaded.table
                /\ wildcard_match' = c.wildcard_match
                /\ min_wildcard_depth' = c.min_wildcard_depth

\* ------------------------------------------------------------------ lookup
\* get_wildcards: elems.len() - (min_wildcard_depth + 1) is a usize
\* subtraction; it underflows when elems is shorter.
wildcards_underflow(host) ==
    Len(split(host, ".")) < min_wildcard_depth + 1

\* "." and elems[j] for every j from the given one on (0-based, as in the code).
RECURSIVE wildcard_from(_, _)
wildcard_from(elems, j) ==
    IF j >= Len(elems) THEN <<>>
    ELSE <<".">> \o elems[j + 1] \o wildcard_from(elems, j + 1)

\* Mutant of get_wildcards: the range ends one step later, so the suffix one
\* label shorter than min_wildcard_depth is offered too.
get_wildcards_one_more(host) ==
    LET elems == split(host, ".")
        n == Len(elems) - min_wildcard_depth
    IN  [k \in 1..n |-> <<"*">> \o wildcard_from(elems, k)]

\* Mutant of get_wildcards: only the wildcard of the immediate parent.
get_wildcards_parent_only(host) ==
    LET elems == split(host, ".")
        n == Len(elems) - (min_wildcard_depth + 1)
    IN  [k \in 1..(IF n > 1 THEN 1 ELSE n) |-> <<"*">> \o wildcard_from(elems, k)]

\* get_wildcards: for i in 0..elems.len()-(min_wildcard_depth+1), "*" followed
\* by "." and elems[j] for every j in i+1..elems.len().
get_wildcards(host) ==
    LET elems == split(host, ".")
        n == Len(elems) - (min_wildcard_depth + 1)
    IN  [k \in 1..n |-> <<"*">> \o wildcard_from(elems, k)]

\* Lookup::from_rdata(Query::query(name, rtype), RData::A(A::new(0,0,0,0))).
Answered(name) ==
    [status |-> "Answered",
     records |-> <<[name |-> name, rtype |-> "A", rdata |-> <<0, 0, 0, 0>>]>>]
NotHandled == [status |-> "NotHandled", records |-> <<>>]
\* The subtraction panics (overflow checks on) or wraps (overflow checks off),
\* and the wrapped range pushes one String per step until allocation fails.
Panicked == [status |-> "Panicked", records |-> <<>>]
Exhausted == [status |-> "Exhausted", records |-> <<>>]

\* Mutant of lookup: the record of the answer has the type that was asked for.
lookup_echo_type(name, rtype) ==
    LET host == to_string(name)
    IN  IF wildcard_match /\ wildcards_underflow(host)
        THEN {Panicked, Exhausted}
        ELSE LET match_list ==
                     <<host>> \o (IF wildcard_match THEN get_wildcards(host) ELSE <<>>)
             IN  IF \E i \in 1..Len(match_list) : match_list[i] \in DOMAIN block_table
                 THEN {[status |-> "Answered",
                        records |-> <<[name |-> name, rtype |-> rtype,
                                       rdata |-> <<0, 0, 0, 0>>]>>]}
                 ELSE {NotHandled}

\* Mutant of lookup: the match list is built and never consulted.
lookup_never_blocks(name, rtype) ==
    IF wildcard_match /\ wildcards_underflow(to_string(name))
    THEN {Panicked, Exhausted}
    ELSE {NotHandled}

\* BlockListAuthority::lookup: the outcomes the build can produce.
lookup(name, rtype) ==
    LET host == to_string(name)
    IN  IF wildcard_match /\ wildcards_underflow(host)
        THEN {Panicked, Exhausted}
        ELSE LET match_list ==
                     <<host>> \o (IF wildcard_match THEN get_wildcards(host) ELSE <<>>)
             IN  IF \E i \in 1..Len(match_list) : match_list[i] \in DOMAIN block_table
                 THEN {Answered(name)}
                 ELSE {NotHandled}

\* One call of lookup, run to its end; a call that returned waits for Reply.
Lookup(name, rtype) ==
    /\ pc' = "replying"
    /\ query' = [name |-> name, rtype |-> rtype]
    /\ result' \in lookup(name, rtype)
    /\ UNCHANGED <<config, authority, block_tree, chain, invoked>>

\* The caller takes the Result (search awaits lookup and hands it on).
Reply ==
    /\ pc = "replying"
    /\ result.status \in {"Answered", "NotHandled", "Failed"}
    /\ pc' = "serving"
    /\ query' = NoQuery
    /\ result' = NoResult
    /\ invoked' = <<>>
    /\ UNCHANGED <<config, authority, block_tree, chain>>

Init ==
    /\ pc = "start"
    /\ config = NoConfig
    /\ block_table = EmptyTable
    /\ wildcard_match = FALSE
    /\ min_wildcard_depth = 0
    /\ block_tree = BlockTreeNew
    /\ chain = <<"Blocklist">>
    /\ invoked = <<>>
    /\ query = NoQuery
    /\ result = NoResult

\* The server builds the authority from a configuration, then serves queries.
Construct ==
    /\ pc = "start"
    /\ \E c \in Configs : try_from_config(c)
    /\ UNCHANGED <<block_tree, chain, invoked, query, result>>

Search ==
    pc = "serving" /\ \E name \in Queries, rtype \in RecordTypes : Lookup(name, rtype)

Next == Construct \/ Search \/ Reply

Spec == Init /\ [][Next]_vars

\* ------------------------------------------------------------------- chain
\* A zone's stores in configured order (StoreConfig::Chained), consulted as
\* the authority's documentation says: the first store first, a later store
\* only if each prior store returned NotHandled.

\* The chained zones checked: a blocklist of at most one file, any chain.
ChainConfigs == {c \in Configs : Len(c.lists) <= 1}

\* What a forwarding store may end a lookup with (an external collaborator).
ForwardOutcomes(name, rtype) ==
    {[status |-> "Answered",
      records |-> <<[name |-> name, rtype |-> rtype, rdata |-> <<192, 0, 2, 1>>]>>],
     NotHandled,
     [status |-> "Failed", records |-> <<>>]}

\* One store's lookup, by the kind of the store.
attempt_lookup(kind, name, rtype) ==
    IF kind = "Blocklist" THEN lookup(name, rtype) ELSE ForwardOutcomes(name, rtype)

ChainConstruct ==
    /\ pc = "start"
    /\ \E c \in ChainConfigs : try_from_config(c)
    /\ chain' \in Chains
    /\ UNCHANGED <<block_tree, invoked, query, result>>

\* A query enters the chain of its zone.
Dispatch ==
    /\ pc = "serving"
    /\ \E name \in Queries, rtype \in RecordTypes :
           query' = [name |-> name, rtype |-> rtype]
    /\ pc' = "dispatching"
    /\ invoked' = <<>>
    /\ UNCHANGED <<config, authority, block_tree, chain, result>>

\* The next store in order is invoked. Answered and Failed end the dispatch,
\* NotHandled moves on (and after the last store is the result); a lookup
\* that does not return takes the dispatch with it.
Invoke ==
    /\ pc = "dispatching"
    /\ Len(invoked) < Len(chain)
    /\ LET i == Len(invoked) + 1 IN
       \E o \in attempt_lookup(chain[i], query.name, query.rtype) :
           /\ invoked' = Append(invoked, [store |-> i, outcome |-> o.status])
           /\ result' = o
           /\ pc' = IF o.status \in {"Panicked", "Exhausted"} THEN "aborted"
                    ELSE IF o.status = "NotHandled" /\ i < Len(chain)
                         THEN "dispatching"
                         ELSE "replying"
    /\ UNCHANGED <<config, authority, block_tree, chain, query>>

NextChain == ChainConstruct \/ Dispatch \/ Invoke \/ Reply

SpecChain == Init /\ [][NextChain]_vars

\* -------------------------------------------------------------------- tree
\* authority.tree.rs: the block table keyed by the lines as read, beside a
\* BlockTree of their labels.

Reverse(seq) == [i \in 1..Len(seq) |-> seq[Len(seq) + 1 - i]]

\* BlockTree::insert: host_elements is entry.split('.') reversed with its
\* first element overwritten by "."; tree stays the node insert was called on.
insert(tree, entry) ==
    LET rev == Reverse(split(entry, "."))
        host_elements == [rev EXCEPT ![1] = <<".">>]
        marked == [tree EXCEPT !.ptr = "self"]
        elements == {host_elements[i] : i \in 2..Len(host_elements)}
        created == elements \ DOMAIN tree.children
    IN  IF host_elements[1] # <<".">> THEN marked
        ELSE [marked EXCEPT !.children =
                 [l \in (DOMAIN tree.children) \cup created |->
                     IF l \in DOMAIN tree.children THEN tree.children[l]
                     ELSE BlockTreeNode(l)]]

\* The loop of add (authority.tree.rs) over the first n lines of a file.
RECURSIVE tree_add(_, _, _)
tree_add(st, lines, n) ==
    IF n = 0 THEN st
    ELSE LET before == tree_add(st, lines, n - 1)
             line == lines[n]
         IN  IF line = <<>> THEN before
             ELSE [tree |-> insert(before.tree, line),
                   table |-> [k \in (DOMAIN before.table) \cup {line} |-> TRUE]]

RECURSIVE tree_load(_, _)
tree_load(lists, n) ==
    IF n = 0
    THEN [panicked |-> FALSE, st |-> [tree |-> BlockTreeNew, table |-> EmptyTable]]
    ELSE LET before == tree_load(lists, n - 1)
         IN  IF before.panicked THEN before
             ELSE IF ~lists[n].readable
                  THEN [panicked |-> TRUE, st |-> before.st]
                  ELSE [panicked |-> FALSE,
                        st |-> tree_add(before.st, lists[n].lines,
                                        Len(lists[n].lines))]

\* try_from_config of authority.tree.rs (no wildcard options are read).
TreeConfigs ==
    {c \in Configs : ~c.wildcard_match /\ c.min_wildcard_depth = 0}

tree_try_from_config(c) ==
    LET loaded == tree_load(c.lists, Len(c.lists))
    IN  /\ config' = c
        /\ IF loaded.panicked
           THEN /\ pc' = "panicked"
                /\ UNCHANGED <<block_table, block_tree>>
           ELSE /\ pc' = "serving"
                /\ block_table' = loaded.st.table
                /\ block_tree' = loaded.st.tree

\* lookup of authority.tree.rs: the table is asked for the name's text.
tree_lookup(name, rtype) ==
    IF to_string(name) \in DOMAIN block_table THEN Answered(name) ELSE NotHandled

TreeConstruct ==
    /\ pc = "start"
    /\ \E c \in TreeConfigs : tree_try_from_config(c)
    /\ UNCHANGED <<wildcard_match, min_wildcard_depth, chain, invoked, query, result>>

TreeSearch ==
    /\ pc = "serving"
    /\ \E name \in Queries, rtype \in RecordTypes :
           /\ query' = [name |-> name, rtype |-> rtype]
           /\ result' = tree_lookup(name, rtype)
    /\ pc' = "replying"
    /\ UNCHANGED <<config, authority, block_tree, chain, invoked>>

NextTree == TreeConstruct \/ TreeSearch \/ Reply

SpecTree == Init /\ [][NextTree]_vars

\* ------------------------------------------------------------ claims: terms
\* The non-blank lines of the configured files, as written in them.
LoadedLines ==
    UNION {{config.lists[i].lines[j] : j \in 1..Len(config.lists[i].lines)} :
              i \in 1..Len(config.lists)} \ {<<>>}

\* A lookup has ended (Finished), and ended by returning (Returned).
Finished == pc = "replying"
Returned == Finished /\ result.status \in {"Answered", "NotHandled"}

Lower(s) == [i \in 1..Len(s) |-> IF s[i] = "A" THEN "a" ELSE s[i]]
IsLower(s) == Lower(s) = s

\* A line `*.suffix` (the bare `*` is `*.` with the root as suffix), its
\* root-terminated suffix and the number of labels of that suffix.
IsWildcardLine(l) ==
    LET k == entry_key(l) IN Len(k) >= 2 /\ k[1] = "*" /\ k[2] = "."
Suffix(l) == LET k == entry_key(l) IN SubSeq(k, 3, Len(k))
SuffixLabels(l) == Len(split(Suffix(l), ".")) - 1

\* name has the non-root suffix sfx (root-terminated text) plus at least one
\* more label.
StrictlyBelow(name, sfx) ==
    \E k \in 1..(Len(name) - 1) : Dotted(SubSeq(name, k + 1, Len(name))) = sfx

QueryHost == to_string(query.name)

\* ------------------------------------------------------------------- C2
\* C2: every name N on a non-blank, non-wildcard line of a loaded file is
\* blocked when its canonical (lowercase, root-terminated) form is looked up,
\* whatever wildcard_match and min_wildcard_depth are.
C2_ListedNameIsBlocked ==
    Finished =>
        \A N \in LoadedLines :
            (~IsWildcardLine(N) /\ QueryHost = Lower(entry_key(N)))
                => result.status = "Answered"

\* ------------------------------------------------------------------- C5
\* C5: matching is case-insensitive: a lookup that returns for a query whose
\* labels equal those of a loaded entry up to letter case returns an answer.
C5_CaseInsensitiveMatch ==
    Returned =>
        \A E \in LoadedLines :
            Lower(QueryHost) = Lower(entry_key(E)) => result.status = "Answered"

\* ------------------------------------------------------------------- C6
\* C6: construction from a configuration naming a file that cannot be opened
\* ends by returning an error (no authority, no panic).
HasUnreadable == \E i \in 1..Len(config.lists) : ~config.lists[i].readable
C6_UnreadableReturnsErr ==
    (pc # "start" /\ HasUnreadable) => pc = "failed"

\* ------------------------------------------------------------------- C7
\* C7: with wildcard_match enabled, a lookup of a name with fewer labels than
\* min_wildcard_depth and no exact entry completes and returns NotHandled.
C7_ShortNameNotHandled ==
    (Finished /\ wildcard_match /\ Len(query.name) < min_wildcard_depth
        /\ QueryHost \notin DOMAIN block_table)
        => result.status = "NotHandled"
\* ------------------------------------------------------------------- C3
\* Every loaded line is a wildcard line whose suffix has lo to hi labels, and
\* the query is not the text of a loaded line itself.
OnlyWildcardsOfDepth(lo, hi) ==
    /\ LoadedLines # {}
    /\ \A l \in LoadedLines :
           IsWildcardLine(l) /\ lo <= SuffixLabels(l) /\ SuffixLabels(l) <= hi
    /\ QueryHost \notin DOMAIN block_table

\* C3 as claimed: a wildcard entry `*.suffix` whose suffix has
\* min_wildcard_depth or fewer labels blocks no query name; with
\* min_wildcard_depth = 1, wildcard_match enabled and only `*.a` listed, `a.a.`
\* is NotHandled.
C3_AnchorWithinDepthNeverBlocks ==
    /\ (Finished /\ OnlyWildcardsOfDepth(1, min_wildcard_depth))
           => result.status # "Answered"
    /\ (Finished /\ wildcard_match /\ min_wildcard_depth = 1
           /\ DOMAIN block_table = {<<"*", ".", "a", ".">>}
           /\ query.name = <<"a", "a">>)
           => result.status = "NotHandled"

\* C3 as amended: a wildcard entry whose suffix has fewer than
\* min_wildcard_depth labels blocks no query name other than its own text;
\* with wildcard_match enabled and only `*.a` listed, `a.a.` is NotHandled
\* when min_wildcard_depth = 2 and answered when it is 1 or 0.
C3_AnchorBelowDepthNeverBlocks ==
    /\ (Finished /\ OnlyWildcardsOfDepth(0, min_wildcard_depth - 1))
           => result.status # "Answered"
    /\ (Finished /\ wildcard_match /\ min_wildcard_depth <= 2
           /\ DOMAIN block_table = {<<"*", ".", "a", ".">>}
           /\ query.name = <<"a", "a">>)
           => result.status =
                  (IF min_wildcard_depth = 2 THEN "NotHandled" ELSE "Answered")

C3_Witness ==
    /\ Finished /\ wildcard_match /\ min_wildcard_depth = 2
    /\ LoadedLines = {<<"*", ".", "a">>}
    /\ query.name = <<"a", "a">>
    /\ result.status = "NotHandled"

\* ------------------------------------------------------------------- C4
\* A wildcard line `*.S` with S a lowercase name of at least one label.
IsAnchoredWildcard(l) == IsWildcardLine(l) /\ IsLower(l) /\ SuffixLabels(l) >= 1

C4_AnchorWitness ==
    /\ Returned /\ wildcard_match /\ min_wildcard_depth = 0
    /\ LoadedLines = {<<"*", ".", "a">>}
    /\ query.name = <<"a">>
    /\ result.status = "NotHandled"

\* ------------------------------------------------------------------- C8
\* The query is a key of the table, or (wildcard_match enabled) lies strictly
\* below the suffix of a wildcard key that has at least min_wildcard_depth
\* labels.
Covered(name) ==
    \/ to_string(name) \in DOMAIN block_table
    \/ /\ wildcard_match
       /\ \E k \in 1..Len(name) :
              /\ Len(name) - k >= min_wildcard_depth
              /\ (<<"*", ".">> \o Dotted(SubSeq(name, k + 1, Len(name))))
                     \in DOMAIN block_table

\* C8: no false positives: a lookup of a name that is neither listed nor
\* strictly below a qualifying wildcard anchor returns NotHandled.
C8_NoFalsePositives ==
    (Finished /\ ~Covered(query.name)) => result.status = "NotHandled"

\* ------------------------------------------------------------------- C9
\* C9: the answer for a blocked name is exactly one A record 0.0.0.0 for the
\* queried name, whatever record type was asked for, and whether a name is
\* answered does not depend on the record type.
C9_AnswerIsOneNullARecord ==
    Returned =>
        /\ result.status = "Answered" =>
               result.records =
                   <<[name |-> query.name, rtype |-> "A", rdata |-> <<0, 0, 0, 0>>]>>
        /\ \A r \in RecordTypes :
               \A o \in lookup(query.name, r) : o.status = result.status

C9_Witness ==
    /\ Returned /\ result.status = "Answered" /\ query.rtype = "AAAA"
    /\ Len(result.records) = 1
C1_FallthroughWitness ==
    /\ chain = <<"Blocklist", "Forward">> /\ pc = "replying"
    /\ Len(invoked) = 2 /\ invoked[1].outcome = "NotHandled"

\* ------------------------------------------------------------------ C10
\* The labels of a root-terminated entry, top-level label first.
EntryPath(l) ==
    LET parts == split(l, ".") IN Reverse(SubSeq(parts, 1, Len(parts) - 1))

RECURSIVE HasPath(_, _)
HasPath(tree, labels) ==
    \/ labels = <<>>
    \/ /\ Head(labels) \in DOMAIN tree.children
       /\ HasPath(tree.children[Head(labels)], Tail(labels))

\* C10: after any inserts, every inserted entry (an exact, root-terminated
\* name) with labels L0 (top-level) .. Ln is the nested path
\* root -> L0 -> .. -> Ln of the tree.
C10_EntriesAreNestedPaths ==
    pc \in {"serving", "replying"} =>
        \A l \in LoadedLines :
            (l[Len(l)] = "." /\ ~IsWildcardLine(l))
                => HasPath(block_tree, EntryPath(l))
=============================================================================
